---- MODULE Spec2Model ----
(***************************************************************************)
(* A model of createCssVarsProvider (mui-system, cssVars): the factory,     *)
(* the useColorScheme hook, one render of CssVarsProvider (resolved color   *)
(* scheme, merged theme, style sheet, context value) and its four effects   *)
(* (root attribute, color-scheme property, transition-disabling style rule, *)
(* hasMounted), with the DOM and the 1 ms removal timers they act on.       *)
(* useCurrentColorScheme and cssVarsParser are imported by the source file  *)
(* and modelled from their documented contract.                             *)
(***************************************************************************)
EXTENDS Naturals, Sequences, FiniteSets, TLC

VARIABLES
  options,                    \* the argument of createCssVarsProvider
  created,                    \* createCssVarsProvider(options) has returned
  diagnostics,                \* number of console.error calls
  mounted,                    \* a CssVarsProvider is mounted
  renderThrew,                \* a render of CssVarsProvider threw
  attribute,                  \* props of the mounted provider
  disableTransitionOnChange,
  enableColorScheme,
  mode,                       \* state of useCurrentColorScheme
  osPref,                     \* the OS-level light/dark preference
  lightColorScheme,
  darkColorScheme,
  hasMounted,                 \* hasMounted.current
  rootAttr,                   \* attributes of document.documentElement
  styleProp,                  \* document.documentElement.style 'color-scheme'
  initialStyleProp,           \* its value before any provider mounted
  head,                       \* transition-disabling <style> elements in document.head
  timers,                     \* elements whose removal timer is pending
  nextStyle,                  \* number of <style> elements created so far
  csCleanup,                  \* cleanup closure of the color-scheme effect
  effectTimer,                \* `timer` of the current transition effect closure
  rendered,                   \* what the last render of the provider produced
  colorSchemeWritten,         \* history: the color-scheme effect wrote in this (or the last) mount
  outsideResult               \* useColorScheme() of a component outside any provider

vars == <<options, created, diagnostics, mounted, renderThrew, attribute,
          disableTransitionOnChange, enableColorScheme, mode, osPref,
          lightColorScheme, darkColorScheme, hasMounted, rootAttr,
          styleProp, initialStyleProp, head, timers, nextStyle, csCleanup,
          effectTimer, rendered, colorSchemeWritten, outsideResult>>

(* ---------------------------------------------------------------- bounds *)

\* At most this many transition-disabling <style> elements are created.
MaxStyles == 2

(* ------------------------------------------------------------- constants *)

Undefined == "undefined"
NoTimer == 0
Modes == {"light", "dark", "system"}
DEFAULT_ATTRIBUTE == "data-color-scheme"
Attributes == {DEFAULT_ATTRIBUTE, "data-theme"}
RootSelector == <<":root">>

(* ---------------------------------------------------- themes and parser *)

NoPalette == [present |-> FALSE, primary |-> Undefined,
              mode |-> Undefined, colorScheme |-> Undefined]

PaletteOf(primary) == [present |-> TRUE, primary |-> primary,
                       mode |-> Undefined, colorScheme |-> Undefined]

\* The registered schemes: light and dark carry a palette, hc does not.
SchemeBody(key) ==
  CASE key = "light" -> [palette |-> PaletteOf("#fff"), fontSize |-> Undefined]
    [] key = "dark"  -> [palette |-> PaletteOf("#000"), fontSize |-> Undefined]
    [] OTHER         -> [palette |-> NoPalette, fontSize |-> "18px"]

\* The theme without its colorSchemes and components (restThemeProp).
RestTheme(opts) ==
  [palette |-> IF opts.rootPalette THEN PaletteOf("#888") ELSE NoPalette,
   fontSize |-> "14px"]

VarName(prefix, path) ==
  "--" \o (IF prefix = "" THEN "" ELSE prefix \o "-") \o path

\* cssVarsParser(theme, {prefix}): css/vars as the set of generated
\* declarations, parsedTheme with each generated leaf replaced by var(--name).
cssVarsParser(t, prefix) ==
  LET decls ==
        (IF t.palette.present
           THEN {[name |-> VarName(prefix, "palette-primary"), value |-> t.palette.primary]}
           ELSE {})
        \cup
        (IF t.fontSize # Undefined
           THEN {[name |-> VarName(prefix, "fontSize"), value |-> t.fontSize]}
           ELSE {})
  IN [css |-> decls,
      vars |-> decls,
      parsedTheme |->
        [palette |-> IF t.palette.present
                       THEN [t.palette EXCEPT
                               !.primary = "var(" \o VarName(prefix, "palette-primary") \o ")"]
                       ELSE t.palette,
         fontSize |-> IF t.fontSize # Undefined
                        THEN "var(" \o VarName(prefix, "fontSize") \o ")"
                        ELSE Undefined]]

\* { ...a, ...b }: the keys b has replace those of a.
Spread(a, b) ==
  [palette |-> IF b.palette.present THEN b.palette ELSE a.palette,
   fontSize |-> IF b.fontSize # Undefined THEN b.fontSize ELSE a.fontSize]

(* --------------------------------------------------------------- options *)

StringDefault(s) == [kind |-> "string", str |-> s, light |-> Undefined, dark |-> Undefined]
ObjectDefault(l, d) == [kind |-> "object", str |-> Undefined, light |-> l, dark |-> d]
OmittedDefault == [kind |-> "undefined", str |-> Undefined, light |-> Undefined, dark |-> Undefined]

\* theme.colorSchemes: absent, or the keys in Object.entries order.
Registries ==
  {[present |-> FALSE, keys |-> <<>>],
   [present |-> TRUE, keys |-> <<"light">>],
   [present |-> TRUE, keys |-> <<"light", "dark">>],
   [present |-> TRUE, keys |-> <<"dark", "hc", "light">>]}

DefaultColorSchemes ==
  {OmittedDefault}
  \cup {StringDefault(s) : s \in {"light", "dark"}}
  \cup {ObjectDefault(l, d) : l \in {"light", "hc"}, d \in {"dark", Undefined}}

OptionsSet ==
  [colorSchemes : Registries,
   defaultColorScheme : DefaultColorSchemes,
   defaultMode : Modes,
   rootPalette : BOOLEAN]

Range(s) == {s[i] : i \in DOMAIN s}

(* ------------------------------------------------- createCssVarsProvider *)

\* The condition of the console.error at construction.
MissingDefault(opts) ==
  LET cs == opts.colorSchemes
      d == opts.defaultColorScheme
  IN \/ ~cs.present
     \/ (d.kind = "string" /\ d.str \notin Range(cs.keys))
     \/ (d.kind = "object" /\ d.light \notin Range(cs.keys))
     \/ (d.kind = "object" /\ d.dark \notin Range(cs.keys))

designSystemTransitionOnChange == FALSE
designSystemEnableColorScheme == TRUE
designSystemPrefix == ""

(* -------------------------------------------------------- useColorScheme *)

CtxUndefined ==
  [defined |-> FALSE, mode |-> Undefined, lightColorScheme |-> Undefined,
   darkColorScheme |-> Undefined, colorScheme |-> Undefined, allColorSchemes |-> <<>>]

NotCalled == [outcome |-> "none", value |-> CtxUndefined]
Threw == [outcome |-> "threw", value |-> CtxUndefined]
Returned(v) == [outcome |-> "returned", value |-> v]

useColorScheme_noCheck(value) == Returned(value)

\* const value = React.useContext(ColorSchemeContext); if (!value) throw ...
useColorScheme(value) ==
  IF ~value.defined THEN Threw ELSE Returned(value)

(* ------------------------------------- useCurrentColorScheme (contract) *)

\* What the storage entry may hold: nothing, a mode, or an invalid value.
StoredValues == {"none", "light", "dark", "system", "bogus"}

\* The mode read on first activation: the persisted one, else defaultMode.
ReadMode(stored, defaultMode) ==
  IF stored \in Modes THEN stored ELSE defaultMode

\* systemMode mirrors the OS preference while mode is 'system'.
SystemMode(m, os) == IF m = "system" THEN os ELSE Undefined

ColorScheme(m, sys, l, d) ==
  CASE m = "light"  -> l
    [] m = "dark"   -> d
    [] m = "system" -> (IF sys = "dark" THEN d ELSE l)
    [] OTHER        -> Undefined

(* ------------------------------------------------ CssVarsProvider render *)

defaultLightColorScheme(dcs) == IF dcs.kind = "string" THEN dcs.str ELSE dcs.light

defaultDarkColorScheme(dcs) == IF dcs.kind = "string" THEN dcs.str ELSE dcs.dark

resolvedColorScheme_systemDark(cs, defaultMode, dl, dd) ==
  IF cs = Undefined
    THEN (IF defaultMode \in {"dark", "system"} THEN dd ELSE dl)
    ELSE cs

resolvedColorScheme(cs, defaultMode, dl, dd) ==
  IF cs = Undefined
    THEN (IF defaultMode = "dark" THEN dd ELSE dl)
    ELSE cs

resolvedDefaultColorScheme_ignoreMode(dcs, defaultMode) ==
  IF dcs.kind = "string" THEN dcs.str ELSE dcs.light

resolvedDefaultColorScheme(dcs, defaultMode) ==
  IF dcs.kind = "string" THEN dcs.str
  ELSE IF defaultMode = "dark" THEN dcs.dark
  ELSE dcs.light

\* deepmerge(target, source) on flat variable maps: source wins per name.
deepmerge(target, source) ==
  {x \in target : \A y \in source : y.name # x.name} \cup source

AssignRuntime_unresolved(palette, m, cs, res) ==
  [palette EXCEPT !.mode = m, !.colorScheme = cs]

\* theme.palette.mode = mode; theme.palette.colorScheme = resolvedColorScheme
AssignRuntime(palette, m, cs, res) ==
  [palette EXCEPT !.mode = m, !.colorScheme = res]

SetEntry(sheet, sel, css) ==
  [s \in (DOMAIN sheet) \cup {sel} |-> IF s = sel THEN css ELSE sheet[s]]

\* One iteration of Object.entries(colorSchemes).forEach.
SchemeStep(acc, key, env) ==
  LET parsed == cssVarsParser(SchemeBody(key), env.prefix)
      merged == [acc.theme EXCEPT !.vars = deepmerge(acc.theme.vars, parsed.vars)]
      spread ==
        IF key = env.resolved
          THEN LET sp == Spread(merged, parsed.parsedTheme)
               IN [palette |-> IF sp.palette.present
                                 THEN AssignRuntime(sp.palette, env.mode, env.colorScheme, env.resolved)
                                 ELSE sp.palette,
                   fontSize |-> sp.fontSize,
                   vars |-> merged.vars]
          ELSE merged
      sel == IF key = resolvedDefaultColorScheme(env.defaultColorScheme, env.defaultMode)
               THEN RootSelector
               ELSE <<env.attribute, key>>
  IN [theme |-> spread, styleSheet |-> SetEntry(acc.styleSheet, sel, parsed.css)]

RECURSIVE ForEachScheme(_, _, _)
ForEachScheme(keys, acc, env) ==
  IF keys = <<>> THEN acc
  ELSE ForEachScheme(Tail(keys), SchemeStep(acc, Head(keys), env), env)

ContextValue(m, l, d, cs, keys) ==
  [defined |-> TRUE, mode |-> m, lightColorScheme |-> l, darkColorScheme |-> d,
   colorScheme |-> cs, allColorSchemes |-> keys]

\* The body of CssVarsProvider up to its return value.
Render(opts, attr, m, sys, l, d) ==
  LET cs == ColorScheme(m, sys, l, d)
      dcs == opts.defaultColorScheme
      res == resolvedColorScheme(cs, opts.defaultMode,
                                 defaultLightColorScheme(dcs), defaultDarkColorScheme(dcs))
      root == cssVarsParser(RestTheme(opts), designSystemPrefix)
      theme0 == [palette |-> root.parsedTheme.palette,
                 fontSize |-> root.parsedTheme.fontSize,
                 vars |-> root.vars]
      env == [prefix |-> designSystemPrefix, resolved |-> res, mode |-> m,
              colorScheme |-> cs, defaultColorScheme |-> dcs,
              defaultMode |-> opts.defaultMode, attribute |-> attr]
      out == ForEachScheme(opts.colorSchemes.keys,
                           [theme |-> theme0, styleSheet |-> <<>>], env)
      ctx == ContextValue(m, l, d, cs, opts.colorSchemes.keys)
  IN [attribute |-> attr,
      hook |-> [mode |-> m, systemMode |-> sys, colorScheme |-> cs],
      resolved |-> res,
      theme |-> out.theme,
      styleSheet |-> out.styleSheet,
      ctx |-> ctx,
      consumer |-> useColorScheme(ctx)]

NotRendered ==
  [attribute |-> Undefined,
   hook |-> [mode |-> Undefined, systemMode |-> Undefined, colorScheme |-> Undefined],
   resolved |-> Undefined,
   theme |-> [palette |-> NoPalette, fontSize |-> Undefined, vars |-> {}],
   styleSheet |-> <<>>,
   ctx |-> CtxUndefined,
   consumer |-> NotCalled]

(* ----------------------------------------------------------- the effects *)

AttributeDeps_noAttribute(cs, attr) == <<cs>>

\* }, [colorScheme, attribute]);
AttributeDeps(cs, attr) == <<cs, attr>>

\* if (colorScheme) document.documentElement.setAttribute(attribute, colorScheme)
AttributeEffect(attrs, cs, attr) ==
  IF cs # Undefined THEN [attrs EXCEPT ![attr] = cs] ELSE attrs

\* }, [mode, systemMode, enableColorScheme]);
ColorSchemeDeps(m, sys, ecs) == <<m, sys, ecs>>

\* if (!mode || !enableColorScheme) return undefined;
ColorSchemeEffectActive(m, ecs) == m # Undefined /\ ecs

PriorRead_empty(current) == ""

\* const priorColorScheme = ...style.getPropertyValue('color-scheme');
PriorRead(current) == current

\* style.setProperty('color-scheme', value): a value that does not parse
\* (undefined) leaves the property as it is.
SetProperty(current, value) == IF value = Undefined THEN current ELSE value

\* The value the effect writes: systemMode in 'system' mode, else mode.
ColorSchemeValue(m, sys) == IF m = "system" THEN sys ELSE m

NoCleanup == [active |-> FALSE, prior |-> ""]

\* The cleanup of the previous run, then this run, of the color-scheme effect.
ColorSchemeEffect(current, cleanup, m, sys, ecs) ==
  LET restored == IF cleanup.active THEN SetProperty(current, cleanup.prior) ELSE current
  IN IF ColorSchemeEffectActive(m, ecs)
       THEN [prop |-> SetProperty(restored, ColorSchemeValue(m, sys)),
             cleanup |-> [active |-> TRUE, prior |-> PriorRead(restored)]]
       ELSE [prop |-> restored, cleanup |-> NoCleanup]

\* }, [colorScheme, disableTransitionOnChange]);
TransitionDeps(cs, dtoc) == <<cs, dtoc>>

TransitionInjects_always(dtoc, mountedRef) == dtoc

\* if (disableTransitionOnChange && hasMounted.current)
TransitionInjects(dtoc, mountedRef) == dtoc /\ mountedRef

\* clearTimeout(timer): cancels the removal if it is still pending.
ClearTimeout(pending, t) == pending \ {t}



(* -------------------------------------------------------------- a commit *)

\* One render of the mounted provider followed by the cleanups and effects
\* React runs for it: the layout effect (color-scheme) first, then the passive
\* effects in the order of their declaration (attribute, transition,
\* hasMounted).  isMount: the first render of a mount, where every effect
\* runs; otherwise an effect runs when one of its dependencies has changed.
Commit(isMount, a, dtoc, ecs, m, os, l, d) ==
  LET sys == SystemMode(m, os)
      oldSys == SystemMode(mode, osPref)
      oldCs == ColorScheme(mode, oldSys, lightColorScheme, darkColorScheme)
      cs == ColorScheme(m, sys, l, d)
      runColorScheme ==
        isMount \/ ColorSchemeDeps(mode, oldSys, enableColorScheme)
                     # ColorSchemeDeps(m, sys, ecs)
      runAttribute ==
        isMount \/ AttributeDeps(oldCs, attribute) # AttributeDeps(cs, a)
      runTransition ==
        isMount \/ TransitionDeps(oldCs, disableTransitionOnChange) # TransitionDeps(cs, dtoc)
      csEffect == ColorSchemeEffect(styleProp, IF isMount THEN NoCleanup ELSE csCleanup,
                                    m, sys, ecs)
      mountedRef == IF isMount THEN FALSE ELSE hasMounted
      inject == runTransition /\ TransitionInjects(dtoc, mountedRef)
      cleared == IF runTransition /\ ~isMount THEN ClearTimeout(timers, effectTimer) ELSE timers
  IN /\ inject => nextStyle < MaxStyles
     /\ mounted' = TRUE
     /\ attribute' = a
     /\ disableTransitionOnChange' = dtoc
     /\ enableColorScheme' = ecs
     /\ mode' = m
     /\ lightColorScheme' = l
     /\ darkColorScheme' = d
     /\ rendered' = Render(options, a, m, sys, l, d)
     /\ styleProp' = (IF runColorScheme THEN csEffect.prop ELSE styleProp)
     /\ csCleanup' = (IF runColorScheme THEN csEffect.cleanup ELSE csCleanup)
     /\ colorSchemeWritten' = \/ (~isMount /\ colorSchemeWritten)
                              \/ (runColorScheme /\ ColorSchemeEffectActive(m, ecs))
     /\ rootAttr' = (IF runAttribute THEN AttributeEffect(rootAttr, cs, a) ELSE rootAttr)
     /\ IF inject
          THEN /\ nextStyle' = nextStyle + 1
               /\ head' = head \cup {nextStyle + 1}
               /\ timers' = cleared \cup {nextStyle + 1}
               /\ effectTimer' = nextStyle + 1
          ELSE /\ nextStyle' = nextStyle
               /\ head' = head
               /\ timers' = cleared
               /\ effectTimer' = (IF runTransition THEN NoTimer ELSE effectTimer)
     /\ hasMounted' = TRUE

(* ----------------------------------------------------------------- state *)

factory == <<options, created, diagnostics>>
component == <<mounted, attribute, disableTransitionOnChange, enableColorScheme,
               mode, lightColorScheme, darkColorScheme, hasMounted, csCleanup,
               effectTimer, rendered>>
document == <<rootAttr, styleProp, head, timers, nextStyle, colorSchemeWritten>>

\* The state before createCssVarsProvider is called, for the options opts.
InitWith(opts) ==
  /\ options \in opts
  /\ created = FALSE
  /\ diagnostics = 0
  /\ mounted = FALSE
  /\ renderThrew = FALSE
  /\ attribute = DEFAULT_ATTRIBUTE
  /\ disableTransitionOnChange = designSystemTransitionOnChange
  /\ enableColorScheme = designSystemEnableColorScheme
  /\ mode = Undefined
  /\ osPref \in {"light", "dark"}
  /\ lightColorScheme = Undefined
  /\ darkColorScheme = Undefined
  /\ hasMounted = FALSE
  /\ rootAttr = [x \in Attributes |-> "none"]
  /\ styleProp \in {"", "dark"}
  /\ initialStyleProp = styleProp
  /\ head = {}
  /\ timers = {}
  /\ nextStyle = 0
  /\ csCleanup = NoCleanup
  /\ effectTimer = NoTimer
  /\ rendered = NotRendered
  /\ colorSchemeWritten = FALSE
  /\ outsideResult = NotCalled

\* createCssVarsProvider(options)
Create ==
  /\ ~created
  /\ created' = TRUE
  /\ diagnostics' = diagnostics + (IF MissingDefault(options) THEN 1 ELSE 0)
  /\ UNCHANGED <<options, component, document, renderThrew, osPref,
                 initialStyleProp, outsideResult>>

\* A render of <CssVarsProvider> with defaultColorScheme undefined:
\* defaultColorScheme.light throws a TypeError.
RenderThrows ==
  /\ created /\ ~mounted /\ ~renderThrew
  /\ options.defaultColorScheme.kind = "undefined"
  /\ renderThrew' = TRUE
  /\ UNCHANGED <<factory, component, document, osPref, initialStyleProp, outsideResult>>

\* Mounting <CssVarsProvider>: the color-scheme state is either not yet
\* activated (mode undefined) or read from storage during the first render.
Mount ==
  /\ created /\ ~mounted
  /\ options.defaultColorScheme.kind # "undefined"
  /\ \E a \in Attributes, dtoc \in BOOLEAN, ecs \in BOOLEAN,
        m \in {Undefined} \cup {ReadMode(stored, options.defaultMode) : stored \in StoredValues} :
       Commit(TRUE, a, dtoc, ecs, m, osPref,
              defaultLightColorScheme(options.defaultColorScheme),
              defaultDarkColorScheme(options.defaultColorScheme))
  /\ UNCHANGED <<factory, renderThrew, osPref, initialStyleProp, outsideResult>>

\* First activation on the client: the persisted mode is read.
Activate ==
  /\ mounted /\ mode = Undefined
  /\ \E stored \in StoredValues :
       Commit(FALSE, attribute, disableTransitionOnChange, enableColorScheme,
              ReadMode(stored, options.defaultMode), osPref,
              lightColorScheme, darkColorScheme)
  /\ UNCHANGED <<factory, renderThrew, osPref, initialStyleProp, outsideResult>>

\* setMode(next)
SetMode ==
  /\ mounted /\ mode # Undefined
  /\ \E next \in Modes \ {mode} :
       Commit(FALSE, attribute, disableTransitionOnChange, enableColorScheme,
              next, osPref, lightColorScheme, darkColorScheme)
  /\ UNCHANGED <<factory, renderThrew, osPref, initialStyleProp, outsideResult>>

\* setColorScheme(value), value one of the supported schemes: replaces the
\* scheme of the effective mode.
SetColorScheme ==
  /\ mounted /\ mode # Undefined
  /\ \E value \in Range(options.colorSchemes.keys) :
       LET dark == mode = "dark" \/ (mode = "system" /\ osPref = "dark")
           l == IF dark THEN lightColorScheme ELSE value
           d == IF dark THEN value ELSE darkColorScheme
       IN /\ <<l, d>> # <<lightColorScheme, darkColorScheme>>
          /\ Commit(FALSE, attribute, disableTransitionOnChange, enableColorScheme,
                    mode, osPref, l, d)
  /\ UNCHANGED <<factory, renderThrew, osPref, initialStyleProp, outsideResult>>

\* The OS preference changes while the provider listens (mode 'system').
SystemChange ==
  /\ mounted /\ mode = "system"
  /\ osPref' = (IF osPref = "dark" THEN "light" ELSE "dark")
  /\ Commit(FALSE, attribute, disableTransitionOnChange, enableColorScheme,
            mode, IF osPref = "dark" THEN "light" ELSE "dark",
            lightColorScheme, darkColorScheme)
  /\ UNCHANGED <<factory, renderThrew, initialStyleProp, outsideResult>>

\* The parent re-renders the provider with other props.
SetProps ==
  /\ mounted
  /\ \E a \in Attributes, dtoc \in BOOLEAN, ecs \in BOOLEAN :
       /\ <<a, dtoc, ecs>> # <<attribute, disableTransitionOnChange, enableColorScheme>>
       /\ Commit(FALSE, a, dtoc, ecs, mode, osPref, lightColorScheme, darkColorScheme)
  /\ UNCHANGED <<factory, renderThrew, osPref, initialStyleProp, outsideResult>>

\* Unmount: every effect's cleanup runs and the component state is dropped.
Unmount ==
  /\ mounted
  /\ mounted' = FALSE
  /\ styleProp' = (IF csCleanup.active THEN SetProperty(styleProp, csCleanup.prior)
                   ELSE styleProp)
  /\ csCleanup' = NoCleanup
  /\ timers' = ClearTimeout(timers, effectTimer)
  /\ effectTimer' = NoTimer
  /\ hasMounted' = FALSE
  /\ attribute' = DEFAULT_ATTRIBUTE
  /\ disableTransitionOnChange' = designSystemTransitionOnChange
  /\ enableColorScheme' = designSystemEnableColorScheme
  /\ mode' = Undefined
  /\ lightColorScheme' = Undefined
  /\ darkColorScheme' = Undefined
  /\ rendered' = NotRendered
  /\ UNCHANGED <<factory, renderThrew, osPref, rootAttr, initialStyleProp, head,
                 nextStyle, colorSchemeWritten, outsideResult>>

\* A pending removal timer fires: document.head.removeChild(css).
TimerFire ==
  /\ \E css \in timers :
       /\ timers' = timers \ {css}
       /\ head' = head \ {css}
  /\ UNCHANGED <<factory, component, renderThrew, osPref, rootAttr, styleProp,
                 initialStyleProp, nextStyle, colorSchemeWritten, outsideResult>>

\* A component that no CssVarsProvider encloses calls useColorScheme().
UseOutside ==
  /\ created
  /\ outsideResult = NotCalled
  /\ outsideResult' = useColorScheme(CtxUndefined)
  /\ UNCHANGED <<factory, component, document, renderThrew, osPref, initialStyleProp>>

\* The render phase of <CssVarsProvider> alone (its effects are not run, as
\* on the server), for any props and any state the color-scheme hook returns.
RenderOnly ==
  /\ created /\ ~mounted /\ rendered = NotRendered
  /\ options.defaultColorScheme.kind # "undefined"
  /\ \E a \in Attributes, m \in Modes \cup {Undefined}, os \in {"light", "dark"},
        l \in Range(options.colorSchemes.keys)
               \cup {defaultLightColorScheme(options.defaultColorScheme)},
        d \in Range(options.colorSchemes.keys)
               \cup {defaultDarkColorScheme(options.defaultColorScheme)} :
       rendered' = Render(options, a, m, SystemMode(m, os), l, d)
  /\ UNCHANGED <<factory, mounted, attribute, disableTransitionOnChange,
                 enableColorScheme, mode, lightColorScheme, darkColorScheme,
                 hasMounted, csCleanup, effectTimer, document, renderThrew, osPref,
                 initialStyleProp, outsideResult>>

\* The provider over its life: one design system, its props and state changing.
LifecycleOptions ==
  {o \in OptionsSet :
     /\ o.colorSchemes.keys = <<"light", "dark">>
     /\ o.defaultColorScheme = ObjectDefault("light", "dark")
     /\ o.defaultMode \in {"light", "system"}
     /\ o.rootPalette}

Init == InitWith(LifecycleOptions)

Next ==
  \/ Create
  \/ Mount
  \/ Activate
  \/ SetMode
  \/ SetColorScheme
  \/ SystemChange
  \/ SetProps
  \/ Unmount
  \/ TimerFire

Spec == Init /\ [][Next]_vars

\* One render, for every design system: the factory, one render of the
\* provider and the hook outside any provider.
InitRender ==
  /\ InitWith(OptionsSet)
  /\ osPref = "light"
  /\ styleProp = ""

NextRender ==
  \/ Create
  \/ RenderThrows
  \/ RenderOnly
  \/ UseOutside

SpecRender == InitRender /\ [][NextRender]_vars

(* ------------------------------------------------------------ properties *)

\* The color scheme the hook returns for the current state.
CurrentColorScheme ==
  ColorScheme(mode, SystemMode(mode, osPref), lightColorScheme, darkColorScheme)

Keys == Range(options.colorSchemes.keys)

HasRendered == rendered # NotRendered

\* C1: useColorScheme() outside any CssVarsProvider throws and returns no
\* value; under a provider it does not throw and returns that provider's
\* context value.
C1_HookThrowsOnlyOutside ==
  /\ outsideResult # NotCalled => outsideResult = Threw
  /\ HasRendered => rendered.consumer = Returned(rendered.ctx)

C1_Witness ==
  /\ outsideResult = Threw
  /\ HasRendered
  /\ rendered.consumer.outcome = "returned"
  /\ rendered.consumer.value.colorScheme = "dark"

\* C2: the effects run for a mount (the first one or a remount) never inject
\* the transition-disabling style rule, whatever disableTransitionOnChange is.
C2_NoInjectionOnMount ==
  [][(~mounted /\ mounted') =>
       (head' = head /\ nextStyle' = nextStyle /\ timers' = timers)]_vars

\* A remount with disableTransitionOnChange true that created no style
\* element: the root attribute was written by an earlier mount, and this
\* mount has not activated its color scheme yet.
C2_Witness ==
  /\ mounted /\ hasMounted /\ disableTransitionOnChange
  /\ mode = Undefined
  /\ rootAttr["data-theme"] = "dark"
  /\ nextStyle = 0

\* C3: the transition-disabling style rule is injected only in an effect run
\* in which colorScheme differs from its value at the previous run; no other
\* prop or state change injects it.
C3_InjectOnlyOnSchemeChange ==
  [][nextStyle' > nextStyle => CurrentColorScheme' # CurrentColorScheme]_vars

\* C4: every transition-disabling style element appended to document.head is
\* eventually removed.  Only its own timer removes an element, so every
\* element still in document.head must have its removal timer pending.
C4_EveryStyleRemovalPending ==
  \A css \in head : css \in timers

\* C5: the style sheet of a render has exactly one entry per registered
\* scheme: the configured default scheme under ':root', every other scheme k
\* under '[attribute="k"]', each holding the CSS parsed from that scheme,
\* whatever the active color scheme is.
C5_StyleSheetSelectors ==
  HasRendered =>
    LET dcs == options.defaultColorScheme
        default == IF dcs.kind = "string" THEN dcs.str
                   ELSE IF options.defaultMode = "dark" THEN dcs.dark
                   ELSE dcs.light
        SelectorOf(k) == IF k = default THEN <<":root">> ELSE <<rendered.attribute, k>>
    IN /\ Cardinality(DOMAIN rendered.styleSheet) = Cardinality(Keys)
       /\ \A k \in Keys :
            /\ SelectorOf(k) \in DOMAIN rendered.styleSheet
            /\ rendered.styleSheet[SelectorOf(k)]
                 = cssVarsParser(SchemeBody(k), designSystemPrefix).css

\* Three schemes, the default resolved through defaultMode 'dark', and an
\* active color scheme other than the default.
C5_Witness ==
  /\ HasRendered
  /\ Cardinality(Keys) = 3
  /\ options.defaultColorScheme = ObjectDefault("light", "dark")
  /\ options.defaultMode = "dark"
  /\ rendered.hook.colorScheme = "hc"
  /\ rendered.attribute = "data-theme"
  /\ rendered.styleSheet[<<":root">>] = cssVarsParser(SchemeBody("dark"), "").css
  /\ <<"data-theme", "light">> \in DOMAIN rendered.styleSheet

C7_ColorSchemeRestored ==
  /\ ~mounted => (styleProp = initialStyleProp /\ ~csCleanup.active)
  /\ (mounted /\ ~(enableColorScheme /\ mode # Undefined))
       => (styleProp = initialStyleProp /\ ~csCleanup.active)
  /\ (mounted /\ enableColorScheme /\ mode # Undefined)
       => /\ csCleanup = [active |-> TRUE, prior |-> initialStyleProp]
          /\ styleProp = (IF mode = "system" THEN osPref ELSE mode)

\* The provider is unmounted again after its effect had written the property
\* over a non-empty pre-mount value.
C7_Witness ==
  /\ ~mounted
  /\ colorSchemeWritten
  /\ initialStyleProp = "dark"
  /\ styleProp = "dark"
  /\ rootAttr[DEFAULT_ATTRIBUTE] = "light"

\* C8: a missing default color scheme only produces a diagnostic:
\* createCssVarsProvider emits it exactly when the registry or the default is
\* missing from it, and rendering the provider afterwards never throws.
C8_MisconfigurationNonFatal ==
  /\ diagnostics = (IF created /\ MissingDefault(options) THEN 1 ELSE 0)
  /\ ~renderThrew

\* C9 (as stated): in every render the theme has palette.mode equal to the
\* mode and palette.colorScheme equal to the resolved color scheme.
C9_PaletteAlwaysAssigned ==
  HasRendered =>
    /\ rendered.theme.palette.mode = rendered.hook.mode
    /\ rendered.theme.palette.colorScheme = rendered.resolved

\* C9 (amended): when the resolved color scheme is a key of the registry and
\* the merged theme has a palette, palette.mode is the mode and
\* palette.colorScheme the resolved color scheme; otherwise the render assigns
\* neither field.
C9_PaletteAssignedWhenRegistered ==
  HasRendered =>
    IF rendered.resolved \in Keys /\ rendered.theme.palette.present
      THEN /\ rendered.theme.palette.mode = rendered.hook.mode
           /\ rendered.theme.palette.colorScheme = rendered.resolved
      ELSE /\ rendered.theme.palette.mode = Undefined
           /\ rendered.theme.palette.colorScheme = Undefined

\* The server phase: the color scheme is undefined, the resolved one is the
\* registered default, and the palette carries it.
C9_Witness ==
  /\ HasRendered
  /\ rendered.hook.colorScheme = Undefined
  /\ rendered.resolved = "dark"
  /\ rendered.resolved \in Keys
  /\ rendered.theme.palette.colorScheme = "dark"
  /\ rendered.theme.palette.mode = Undefined

\* C10: the resolved color scheme is colorScheme when that is defined, else
\* the default dark scheme for defaultMode 'dark' and the default light scheme
\* for every other defaultMode; the context value carries colorScheme itself.
C10_ResolvedColorScheme ==
  HasRendered =>
    LET cs == rendered.hook.colorScheme
        dcs == options.defaultColorScheme
    IN /\ cs # Undefined => rendered.resolved = cs
       /\ cs = Undefined =>
            rendered.resolved = (IF options.defaultMode = "dark"
                                   THEN (IF dcs.kind = "string" THEN dcs.str ELSE dcs.dark)
                                   ELSE (IF dcs.kind = "string" THEN dcs.str ELSE dcs.light))
       /\ rendered.ctx.colorScheme = cs

C10_Witness ==
  /\ HasRendered
  /\ options.defaultMode = "system"
  /\ options.defaultColorScheme = ObjectDefault("light", "dark")
  /\ rendered.hook.colorScheme = Undefined
  /\ rendered.resolved = "light"
  /\ rendered.ctx.colorScheme = Undefined

====
